---- MODULE Spec2Model ----
(***************************************************************************)
(* The cache simulator of csim.c: an array of S = 2^s sets, each a singly  *)
(* linked list of blocks (head/curr/tail pointers and a tracked size),     *)
(* replaying a trace of (operator, address) events under LRU replacement   *)
(* with write-back / write-allocate dirty bookkeeping.                     *)
(*                                                                         *)
(* Memory is modelled at pointer level.  A block pointer is an index into  *)
(* heap (NULL is 0); malloc returns the next unused index, so an address   *)
(* is never handed out twice.  freed[p] counts the calls of free(p).       *)
(* unsigned long is 64 bits wide in the source; every value the bounds     *)
(* below can produce is far below 2^31, so no operation wraps.             *)
(***************************************************************************)
EXTENDS Integers, Sequences, FiniteSets, TLC

\* ---------------------------------------------------------------- bounds
MaxEvents == 4      \* events read from the trace file
MaxAddr   == 3      \* addresses 0..MaxAddr appear in the trace
MaxE      == 2      \* associativity E ranges over 1..MaxE
MaxBits   == 1      \* s >= 0, b >= 0 and s + b <= MaxBits
MaxDecodeBits == 3  \* address decoding alone: s and b range over 0..MaxDecodeBits
MaxDecodeAddr == 63 \* address decoding alone: addresses 0..MaxDecodeAddr

NULL == 0
Addresses == 0 .. MaxAddr
\* "X" stands for every operation character other than 'L' and 'S'
Operators == {"L", "S", "X"}
NoMsg == "none"

VARIABLES
    s, E, b,            \* geometry (main, line 244), fixed after option parsing
    cache,              \* cache[i] = [head, curr, size, tail], i in 0..S-1
    heap,               \* heap[p] = [tag, dirty, next] of the block at p
    freed,              \* freed[p] = number of times free(p) was called
    set_freed,          \* set_freed[i] = number of times free(cache[i]) was
                        \*                called
    operator, address,  \* the event read last (main, lines 321-322)
    which_set,          \* set index decoded from address (line 332)
    which_cache_line,   \* tag decoded from address (line 333)
    msg,                \* outcome label of the event read last (line 330)
    hit, miss, eviction,
    dirty_byte, dirty_eviction,
    pc,                 \* "run" | "done" (summary printed) | "aborted"
    nevents,            \* history: events read so far
    stamp,              \* history: stamp[p] = number of the event that last
                        \*          accessed block p (hit or insertion)
    lastTag,            \* history: lastTag[i] = tag of the last event that
                        \*          mapped to set i, -1 if none
    victims,            \* history: blocks unlinked from their set by the
                        \*          event read last
    evictedDirty,       \* history: evictions so far whose victim had
                        \*          dirty = 1 when it was unlinked
    stored,             \* history: stored[p] = a store has targeted block p
                        \*          since it was brought in
    ref                 \* history: ref[i] = the distinct tags of the events
                        \*          that mapped to set i, most recent first

vars == <<s, E, b, cache, heap, freed, set_freed, operator, address, which_set,
          which_cache_line, msg, hit, miss,
          eviction, dirty_byte, dirty_eviction, pc, nevents, stamp, lastTag,
          victims, evictedDirty,
                   stored, ref>>

\* ------------------------------------------------------- bit arithmetic
RECURSIVE ShiftRight(_, _)
ShiftRight(x, n) == IF n = 0 THEN x ELSE ShiftRight(x \div 2, n - 1)

RECURSIVE ShiftLeft(_, _)
ShiftLeft(x, n) == IF n = 0 THEN x ELSE ShiftLeft(2 * x, n - 1)

RECURSIVE BitAnd(_, _)
BitAnd(x, y) ==
    IF x = 0 \/ y = 0 THEN 0
    ELSE (x % 2) * (y % 2) + 2 * BitAnd(x \div 2, y \div 2)

\* unsigned long S = 1UL << s;
S == ShiftLeft(1, s)

\* mutant: the mask is S instead of S - 1
set_index_of_mask_S(a) == BitAnd(ShiftRight(a, b), S)

\* unsigned long which_set = (address >> b) & (S - 1);
set_index_of(a) == BitAnd(ShiftRight(a, b), S - 1)

\* unsigned long which_cache_line = (address >> (b + s));
tag_of(a) == ShiftRight(a, b + s)

\* ------------------------------------------------------------ the heap
\* A memory m is [cache, heap, freed, set_freed]; every function below maps
\* a memory to the memory after the call.

new_cache_set == [head |-> NULL, curr |-> NULL, size |-> 0, tail |-> NULL]

\* the pointer malloc returns
new_cache_block_ptr(m) == Len(m.heap) + 1

new_cache_block(m, tag) ==
    [m EXCEPT !.heap  = Append(@, [tag |-> tag, dirty |-> 0, next |-> NULL]),
              !.freed = Append(@, 0)]

free(m, p) == [m EXCEPT !.freed[p] = @ + 1]

\* mutant: size is not incremented
cache_set_insert_head_no_inc(m, i, block) ==
    [m EXCEPT !.heap[block].next = m.cache[i].head,
              !.cache[i].head = block,
              !.cache[i].curr = block]

cache_set_insert_head(m, i, block) ==
    [m EXCEPT !.heap[block].next = m.cache[i].head,
              !.cache[i].head = block,
              !.cache[i].curr = block,
              !.cache[i].size = @ + 1]

\* while (pointer->next != target) pointer = pointer->next;
RECURSIVE WalkBefore(_, _, _)
WalkBefore(h, pointer, target) ==
    IF h[pointer].next = target THEN pointer
    ELSE WalkBefore(h, h[pointer].next, target)

\* the block cache_set_remove_current returns
remove_current_saved(m, i) ==
    LET set == m.cache[i] IN
    IF set.head = set.curr THEN set.head
    ELSE IF set.tail = set.curr THEN set.tail
    ELSE set.curr

\* mutant: size is not decremented
cache_set_remove_current_no_dec(m, i) ==
    LET set == m.cache[i] IN
    IF set.head = set.curr THEN
        [m EXCEPT !.cache[i].head = m.heap[set.head].next,
                  !.cache[i].curr = m.heap[set.head].next]
    ELSE IF set.tail = set.curr THEN
        LET pointer == WalkBefore(m.heap, set.head, set.tail) IN
        [m EXCEPT !.cache[i].tail = pointer,
                  !.heap[pointer].next = NULL,
                  !.cache[i].curr = pointer]
    ELSE
        LET pointer == WalkBefore(m.heap, set.head, set.curr) IN
        [m EXCEPT !.heap[pointer].next = m.heap[m.heap[pointer].next].next]

cache_set_remove_current(m, i) ==
    LET set == m.cache[i] IN
    IF set.head = set.curr THEN
        [m EXCEPT !.cache[i].head = m.heap[set.head].next,
                  !.cache[i].curr = m.heap[set.head].next,
                  !.cache[i].size = @ - 1]
    ELSE IF set.tail = set.curr THEN
        LET pointer == WalkBefore(m.heap, set.head, set.tail) IN
        [m EXCEPT !.cache[i].tail = pointer,
                  !.heap[pointer].next = NULL,
                  !.cache[i].curr = pointer,
                  !.cache[i].size = @ - 1]
    ELSE
        LET pointer == WalkBefore(m.heap, set.head, set.curr) IN
        [m EXCEPT !.heap[pointer].next = m.heap[m.heap[pointer].next].next,
                  !.cache[i].size = @ - 1]

\* mutant: the head is unlinked instead of the tail
cache_set_remove_tail_head(m, i) ==
    [m EXCEPT !.cache[i].head = m.heap[m.cache[i].head].next]

\* while (pointer->next->next != NULL) pointer = pointer->next;
RECURSIVE WalkToSecondLast(_, _)
WalkToSecondLast(h, pointer) ==
    IF h[h[pointer].next].next = NULL THEN pointer
    ELSE WalkToSecondLast(h, h[pointer].next)

\* mutant: nothing is unlinked
cache_set_remove_tail_noop(m, i) == m

cache_set_remove_tail(m, i) ==
    LET set == m.cache[i] IN
    IF m.heap[set.head].next = NULL THEN
        [m EXCEPT !.cache[i].head = NULL]
    ELSE
        LET pointer == WalkToSecondLast(m.heap, set.head)
            removed == m.heap[pointer].next
        IN  free([m EXCEPT !.cache[i].tail = pointer,
                           !.heap[pointer].next = NULL],
                 removed)

\* mutant: the flag is set whatever the operator
set_dirty_always(m, block, op) == [m EXCEPT !.heap[block].dirty = 1]

set_dirty(m, block, op) ==
    IF op = "S" THEN [m EXCEPT !.heap[block].dirty = 1] ELSE m

\* while (pointer->next) pointer = pointer->next;
RECURSIVE WalkToLast(_, _)
WalkToLast(h, pointer) ==
    IF h[pointer].next = NULL THEN pointer
    ELSE WalkToLast(h, h[pointer].next)

\* mutant: the flag of the head is read instead of the tail's
dirty_tail_head(m, i) == m.heap[m.cache[i].head].dirty

dirty_tail(m, i) == m.heap[WalkToLast(m.heap, m.cache[i].head)].dirty

\* mutant: the loop stops at the last block instead of after it
RECURSIVE count_dirty_list_skip_last(_, _)
count_dirty_list_skip_last(h, curr) ==
    IF curr = NULL \/ h[curr].next = NULL THEN 0
    ELSE (IF h[curr].dirty # 0 THEN 1 ELSE 0)
         + count_dirty_list_skip_last(h, h[curr].next)

\* the inner loop of count_dirty over one set's list
RECURSIVE count_dirty_list(_, _)
count_dirty_list(h, curr) ==
    IF curr = NULL THEN 0
    ELSE (IF h[curr].dirty # 0 THEN 1 ELSE 0) + count_dirty_list(h, h[curr].next)

RECURSIVE count_dirty_from(_, _, _)
count_dirty_from(m, i, nsets) ==
    IF i >= nsets THEN 0
    ELSE count_dirty_list(m.heap, m.cache[i].head) + count_dirty_from(m, i + 1, nsets)

count_dirty(m, nsets) == count_dirty_from(m, 0, nsets)

\* the inner loop of full_free_cache over one set's list
RECURSIVE free_list(_, _)
free_list(m, curr) ==
    IF curr = NULL THEN m
    ELSE free_list(free(m, curr), m.heap[curr].next)

RECURSIVE full_free_from(_, _, _)
full_free_from(m, i, nsets) ==
    IF i >= nsets THEN m
    ELSE full_free_from(free_list(m, m.cache[i].head), i + 1, nsets)

\* for (j = 0; j < i; j++) free(cache[j]);
RECURSIVE free_sets_from(_, _, _)
free_sets_from(m, j, i) ==
    IF j >= i THEN m
    ELSE free_sets_from([m EXCEPT !.set_freed[j] = @ + 1], j + 1, i)

free_sets(m, i) == free_sets_from(m, 0, i)

\* the second loop of full_free_cache is the loop of free_sets
full_free_cache(m, nsets) == free_sets(full_free_from(m, 0, nsets), nsets)

\* ------------------------------------------------- one iteration of main
\* mutant: curr is left where it is (at the head)
advance_curr_stay(m, i, pointer) == m

\* while (cache[which_set]->curr != pointer) curr = curr->next;
RECURSIVE advance_curr(_, _, _)
advance_curr(m, i, pointer) ==
    IF m.cache[i].curr = pointer THEN m
    ELSE advance_curr([m EXCEPT !.cache[i].curr = m.heap[m.cache[i].curr].next],
                      i, pointer)

\* mutant: a matching block is marked but not moved to the head
RECURSIVE search_no_promote(_, _, _, _, _, _)
search_no_promote(m, i, pointer, tag, op, found) ==
    IF pointer = NULL THEN [m |-> m, found |-> found]
    ELSE IF m.heap[pointer].tag = tag THEN
        search_no_promote(set_dirty(m, pointer, op), i, m.heap[pointer].next,
                          tag, op, 1)
    ELSE search_no_promote(m, i, m.heap[pointer].next, tag, op, found)

\* mutant: the loop stops at the last block instead of after it
RECURSIVE search_skip_last(_, _, _, _, _, _)
search_skip_last(m, i, pointer, tag, op, found) ==
    IF pointer = NULL \/ m.heap[pointer].next = NULL
    THEN [m |-> m, found |-> found]
    ELSE IF m.heap[pointer].tag = tag THEN
        LET m1 == advance_curr(m, i, pointer)
            ru_block == remove_current_saved(m1, i)
            m2 == cache_set_remove_current(m1, i)
            m3 == set_dirty(m2, ru_block, op)
            m4 == cache_set_insert_head(m3, i, ru_block)
        IN  search_skip_last(m4, i, m4.heap[pointer].next, tag, op, 1)
    ELSE search_skip_last(m, i, m.heap[pointer].next, tag, op, found)

\* for (pointer = cache[which_set]->head; pointer; pointer = pointer->next):
\* the loop is not left on a match, it goes on from the promoted block's
\* new successor.
RECURSIVE search(_, _, _, _, _, _)
search(m, i, pointer, tag, op, found) ==
    IF pointer = NULL THEN [m |-> m, found |-> found]
    ELSE IF m.heap[pointer].tag = tag THEN
        LET m1 == advance_curr(m, i, pointer)
            ru_block == remove_current_saved(m1, i)
            m2 == cache_set_remove_current(m1, i)
            m3 == set_dirty(m2, ru_block, op)
            m4 == cache_set_insert_head(m3, i, ru_block)
        IN  search(m4, i, m4.heap[pointer].next, tag, op, 1)
    ELSE search(m, i, m.heap[pointer].next, tag, op, found)

\* mutant: the new block is inserted into cache[0]
insert_block_set0(m, i, tag, op) ==
    LET new_block == new_cache_block_ptr(m)
        m1 == new_cache_block(m, tag)
        m2 == cache_set_insert_head(m1, 0, new_block)
    IN  set_dirty(m2, new_block, op)

\* if (cache[which_set]->size < E) { ... }
insert_block(m, i, tag, op) ==
    LET new_block == new_cache_block_ptr(m)
        m1 == new_cache_block(m, tag)
        m2 == cache_set_insert_head(m1, i, new_block)
    IN  set_dirty(m2, new_block, op)

\* else { ... }: the flag of the tail is read, then the tail is removed
evict_block(m, i, tag, op) ==
    LET new_block == new_cache_block_ptr(m)
        m1 == new_cache_block(m, tag)
        m2 == IF op = "L" THEN [m1 EXCEPT !.heap[new_block].dirty = 0]
              ELSE IF op = "S" THEN [m1 EXCEPT !.heap[new_block].dirty = 1]
              ELSE m1
        m3 == cache_set_remove_tail(m2, i)
    IN  cache_set_insert_head(m3, i, new_block)

\* mutant: the allocation guard is size <= E
lookup_insert_le(m, op, a) ==
    LET i   == set_index_of(a)
        tag == tag_of(a)
        sr  == search(m, i, m.cache[i].head, tag, op, 0)
    IN  IF sr.found # 0 THEN
            [m |-> sr.m, found |-> 1, missed |-> 0, evicted |-> 0,
             dirty_eviction |-> 0]
        ELSE IF sr.m.cache[i].size <= E THEN
            [m |-> insert_block(sr.m, i, tag, op), found |-> 0, missed |-> 1,
             evicted |-> 0, dirty_eviction |-> 0]
        ELSE
            [m |-> evict_block(sr.m, i, tag, op), found |-> 0, missed |-> 0,
             evicted |-> 1,
             dirty_eviction |-> IF dirty_tail(sr.m, i) # 0 THEN 1 ELSE 0]

\* mutant: the search starts at the second block
lookup_insert_skip_head(m, op, a) ==
    LET i   == set_index_of(a)
        tag == tag_of(a)
        first == IF m.cache[i].head = NULL THEN NULL
                 ELSE m.heap[m.cache[i].head].next
        sr  == search(m, i, first, tag, op, 0)
    IN  IF sr.found # 0 THEN
            [m |-> sr.m, found |-> 1, missed |-> 0, evicted |-> 0,
             dirty_eviction |-> 0]
        ELSE IF sr.m.cache[i].size < E THEN
            [m |-> insert_block(sr.m, i, tag, op), found |-> 0, missed |-> 1,
             evicted |-> 0, dirty_eviction |-> 0]
        ELSE
            [m |-> evict_block(sr.m, i, tag, op), found |-> 0, missed |-> 0,
             evicted |-> 1,
             dirty_eviction |-> IF dirty_tail(sr.m, i) # 0 THEN 1 ELSE 0]

\* lines 332-375: lookup, then allocation or eviction
lookup_insert(m, op, a) ==
    LET i   == set_index_of(a)
        tag == tag_of(a)
        sr  == search(m, i, m.cache[i].head, tag, op, 0)
    IN  IF sr.found # 0 THEN
            [m |-> sr.m, found |-> 1, missed |-> 0, evicted |-> 0,
             dirty_eviction |-> 0]
        ELSE IF sr.m.cache[i].size < E THEN
            [m |-> insert_block(sr.m, i, tag, op), found |-> 0, missed |-> 1,
             evicted |-> 0, dirty_eviction |-> 0]
        ELSE
            [m |-> evict_block(sr.m, i, tag, op), found |-> 0, missed |-> 0,
             evicted |-> 1,
             dirty_eviction |-> IF dirty_tail(sr.m, i) # 0 THEN 1 ELSE 0]

\* mutant: an evicting miss counts the eviction but not the miss
outcome_evict_no_miss(op, found, missed, evicted) ==
    IF op \in {"S", "L"} THEN
        IF found # 0 THEN
            [hit |-> 1, miss |-> 0, eviction |-> 0, msg |-> "hit",
             invalid_operator |-> 0]
        ELSE IF missed # 0 THEN
            [hit |-> 0, miss |-> 1, eviction |-> 0, msg |-> "miss",
             invalid_operator |-> 0]
        ELSE IF evicted # 0 THEN
            [hit |-> 0, miss |-> 0, eviction |-> 1, msg |-> "miss eviction",
             invalid_operator |-> 0]
        ELSE
            [hit |-> 0, miss |-> 0, eviction |-> 0, msg |-> NoMsg,
             invalid_operator |-> 0]
    ELSE
        [hit |-> 0, miss |-> 0, eviction |-> 0, msg |-> NoMsg,
         invalid_operator |-> 1]

\* mutant: the default case does not set invalid_operator
outcome_default_ignored(op, found, missed, evicted) ==
    IF op \in {"S", "L"} THEN
        IF found # 0 THEN
            [hit |-> 1, miss |-> 0, eviction |-> 0, msg |-> "hit",
             invalid_operator |-> 0]
        ELSE IF missed # 0 THEN
            [hit |-> 0, miss |-> 1, eviction |-> 0, msg |-> "miss",
             invalid_operator |-> 0]
        ELSE IF evicted # 0 THEN
            [hit |-> 0, miss |-> 1, eviction |-> 1, msg |-> "miss eviction",
             invalid_operator |-> 0]
        ELSE
            [hit |-> 0, miss |-> 0, eviction |-> 0, msg |-> NoMsg,
             invalid_operator |-> 0]
    ELSE
        [hit |-> 0, miss |-> 0, eviction |-> 0, msg |-> NoMsg,
         invalid_operator |-> 0]

\* lines 377-409: switch (operator); the two cases 'S' and 'L' are the same
outcome(op, found, missed, evicted) ==
    IF op \in {"S", "L"} THEN
        IF found # 0 THEN
            [hit |-> 1, miss |-> 0, eviction |-> 0, msg |-> "hit",
             invalid_operator |-> 0]
        ELSE IF missed # 0 THEN
            [hit |-> 0, miss |-> 1, eviction |-> 0, msg |-> "miss",
             invalid_operator |-> 0]
        ELSE IF evicted # 0 THEN
            [hit |-> 0, miss |-> 1, eviction |-> 1, msg |-> "miss eviction",
             invalid_operator |-> 0]
        ELSE
            [hit |-> 0, miss |-> 0, eviction |-> 0, msg |-> NoMsg,
             invalid_operator |-> 0]
    ELSE
        [hit |-> 0, miss |-> 0, eviction |-> 0, msg |-> NoMsg,
         invalid_operator |-> 1]

\* ------------------------------------------------------- observations
\* the blocks linked in a list, first to last
RECURSIVE ListOf(_, _)
ListOf(h, p) == IF p = NULL THEN <<>> ELSE <<p>> \o ListOf(h, h[p].next)

Range(f) == {f[x] : x \in DOMAIN f}

\* the list of set i, and the blocks resident in it
SetList(i) == ListOf(heap, cache[i].head)
Resident(i) == Range(SetList(i))
ResidentTags(i) == {heap[p].tag : p \in Resident(i)}

Sets == 0 .. S - 1

\* ------------------------------------------------------------- actions
Init ==
    /\ s \in 0 .. MaxBits
    /\ b \in 0 .. MaxBits
    /\ s + b <= MaxBits
    /\ E \in 1 .. MaxE
    /\ cache = [i \in 0 .. ShiftLeft(1, s) - 1 |-> new_cache_set]
    /\ heap = <<>>
    /\ freed = <<>>
    /\ set_freed = [i \in 0 .. ShiftLeft(1, s) - 1 |-> 0]
    /\ operator = "L"
    /\ address = 0
    /\ which_set = 0
    /\ which_cache_line = 0
    /\ msg = NoMsg
    /\ hit = 0
    /\ miss = 0
    /\ eviction = 0
    /\ dirty_byte = 0
    /\ dirty_eviction = 0
    /\ pc = "run"
    /\ nevents = 0
    /\ stamp = <<>>
    /\ lastTag = [i \in 0 .. ShiftLeft(1, s) - 1 |-> -1]
    /\ victims = {}
    /\ evictedDirty = 0
    /\ stored = <<>>
    /\ ref = [i \in 0 .. ShiftLeft(1, s) - 1 |-> <<>>]

\* One event is read (fscanf, line 329) and processed (lines 330-420).
Access ==
    /\ pc = "run"
    /\ nevents < MaxEvents
    /\ \E op \in Operators, a \in Addresses :
       \E r \in {lookup_insert([cache |-> cache, heap |-> heap, freed |-> freed,
                                set_freed |-> set_freed], op, a)} :
       \E o \in {outcome(op, r.found, r.missed, r.evicted)} :
       \E m1 \in {IF o.invalid_operator # 0 THEN full_free_cache(r.m, S) ELSE r.m} :
        LET i   == set_index_of(a)
            tag == tag_of(a)
            \* history
            old     == {p \in Resident(i) : heap[p].tag = tag}
            touched == IF Len(r.m.heap) > Len(heap) THEN Len(heap) + 1
                       ELSE CHOOSE p \in old : TRUE
            gone    == Resident(i) \ Range(ListOf(r.m.heap, r.m.cache[i].head))
        IN  /\ operator' = op
            /\ address' = a
            /\ which_set' = i
            /\ which_cache_line' = tag
            /\ cache' = m1.cache
            /\ heap' = m1.heap
            /\ freed' = m1.freed
            /\ set_freed' = m1.set_freed
            /\ hit' = hit + o.hit
            /\ miss' = miss + o.miss
            /\ eviction' = eviction + o.eviction
            /\ dirty_eviction' = dirty_eviction + r.dirty_eviction
            /\ msg' = o.msg
            /\ pc' = IF o.invalid_operator # 0 THEN "aborted" ELSE "run"
            /\ nevents' = nevents + 1
            /\ stamp' = [p \in 1 .. Len(r.m.heap) |->
                            IF p = touched THEN nevents + 1 ELSE stamp[p]]
            /\ lastTag' = [lastTag EXCEPT ![i] = tag]
            /\ victims' = gone
            /\ evictedDirty' = evictedDirty
                                + Cardinality({p \in gone : heap[p].dirty # 0})
            /\ stored' = [p \in 1 .. Len(r.m.heap) |->
                            IF p # touched THEN stored[p]
                            ELSE IF p > Len(heap) THEN op = "S"
                            ELSE stored[p] \/ op = "S"]
            /\ ref' = [ref EXCEPT ![i] =
                            <<tag>> \o SelectSeq(@, LAMBDA x : x # tag)]
    /\ UNCHANGED <<s, E, b, dirty_byte>>

\* fscanf reports the end of the trace; lines 422-439.
Finish ==
    /\ pc = "run"
    /\ LET m0 == [cache |-> cache, heap |-> heap, freed |-> freed,
                  set_freed |-> set_freed]
           m1 == full_free_cache(m0, S)
       IN  /\ dirty_byte' = count_dirty(m0, S) * ShiftLeft(1, b)
           /\ dirty_eviction' = dirty_eviction * ShiftLeft(1, b)
           /\ cache' = m1.cache
           /\ heap' = m1.heap
           /\ freed' = m1.freed
           /\ set_freed' = m1.set_freed
    /\ pc' = "done"
    /\ UNCHANGED <<s, E, b, operator, address, which_set, which_cache_line,
                   msg, hit, miss, eviction, nevents, stamp, lastTag, victims,
                   evictedDirty,
                   stored, ref>>

Next == Access \/ Finish

Spec == Init /\ [][Next]_vars

\* ------------------------------------------- address decoding on its own
\* Lines 297 and 332-333 applied to every address of a wider range, for
\* every pair (s, b); the lists stay empty.
DecodeAddresses == 0 .. MaxDecodeAddr

InitDecode ==
    /\ s \in 0 .. MaxDecodeBits
    /\ b \in 0 .. MaxDecodeBits
    /\ E = 1
    /\ cache = [i \in 0 .. ShiftLeft(1, s) - 1 |-> new_cache_set]
    /\ heap = <<>>
    /\ freed = <<>>
    /\ set_freed = [i \in 0 .. ShiftLeft(1, s) - 1 |-> 0]
    /\ operator = "L"
    /\ address = 0
    /\ which_set = 0
    /\ which_cache_line = 0
    /\ msg = NoMsg
    /\ hit = 0
    /\ miss = 0
    /\ eviction = 0
    /\ dirty_byte = 0
    /\ dirty_eviction = 0
    /\ pc = "run"
    /\ nevents = 0
    /\ stamp = <<>>
    /\ lastTag = [i \in 0 .. ShiftLeft(1, s) - 1 |-> -1]
    /\ victims = {}
    /\ evictedDirty = 0
    /\ stored = <<>>
    /\ ref = [i \in 0 .. ShiftLeft(1, s) - 1 |-> <<>>]

Decode ==
    /\ \E a \in DecodeAddresses :
        /\ address' = a
        /\ which_set' = set_index_of(a)
        /\ which_cache_line' = tag_of(a)
    /\ UNCHANGED <<s, E, b, cache, heap, freed, set_freed, operator, msg, hit, miss,
                   eviction, dirty_byte, dirty_eviction, pc, nevents, stamp,
                   lastTag, victims, evictedDirty,
                   stored, ref>>

NextDecode == Decode

SpecDecode == InitDecode /\ [][NextDecode]_vars

\* ------------------------------------------------ allocation failures
\* The run from the construction of the sets on (lines 299-308), with
\* malloc allowed to return NULL in new_cache_set and new_cache_block.
\* cache holds the sets constructed so far.

\* What dereferencing the NULL block can do (block->next = ..., line 82;
\* new_block->dirty = ..., lines 367 and 369): the behaviour is undefined,
\* the process is killed by a signal or goes on in an unknown state.
NullDerefOutcomes == {"segv", "undefined"}

InitOOM ==
    /\ s \in 0 .. MaxBits
    /\ b \in 0 .. MaxBits
    /\ s + b <= MaxBits
    /\ E \in 1 .. MaxE
    /\ cache = [i \in {} |-> new_cache_set]
    /\ heap = <<>>
    /\ freed = <<>>
    /\ set_freed = [i \in 0 .. ShiftLeft(1, s) - 1 |-> 0]
    /\ operator = "L"
    /\ address = 0
    /\ which_set = 0
    /\ which_cache_line = 0
    /\ msg = NoMsg
    /\ hit = 0
    /\ miss = 0
    /\ eviction = 0
    /\ dirty_byte = 0
    /\ dirty_eviction = 0
    /\ pc = "build"
    /\ nevents = 0
    /\ stamp = <<>>
    /\ lastTag = [i \in 0 .. ShiftLeft(1, s) - 1 |-> -1]
    /\ victims = {}
    /\ evictedDirty = 0
    /\ stored = <<>>
    /\ ref = [i \in 0 .. ShiftLeft(1, s) - 1 |-> <<>>]

\* cache[i] = new_cache_set(); with a set returned
BuildSet ==
    /\ pc = "build"
    /\ LET i == Cardinality(DOMAIN cache) IN
        /\ cache' = [j \in 0 .. i |-> IF j < i THEN cache[j] ELSE new_cache_set]
        /\ pc' = IF i + 1 < S THEN "build" ELSE "run"
    /\ UNCHANGED <<s, E, b, heap, freed, set_freed, operator, address,
                   which_set, which_cache_line, msg, hit, miss, eviction,
                   dirty_byte, dirty_eviction, nevents, stamp, lastTag,
                   victims, evictedDirty,
                   stored, ref>>

\* cache[i] = new_cache_set(); with NULL returned: free_sets(cache, i)
BuildSetFail ==
    /\ pc = "build"
    /\ LET i == Cardinality(DOMAIN cache)
           m == free_sets([cache |-> cache, heap |-> heap, freed |-> freed,
                           set_freed |-> set_freed], i)
       IN  set_freed' = m.set_freed
    /\ pc' = "nomem"
    /\ UNCHANGED <<s, E, b, cache, heap, freed, operator, address, which_set,
                   which_cache_line, msg, hit, miss, eviction, dirty_byte,
                   dirty_eviction, nevents, stamp, lastTag, victims,
                   evictedDirty,
                   stored, ref>>

\* An event misses and new_cache_block returns NULL (line 48): the NULL
\* block is passed to cache_set_insert_head (line 356 or 372) or written
\* through (lines 367, 369) without a check.
AccessAllocFail ==
    /\ pc = "run"
    /\ nevents < MaxEvents
    /\ \E op \in Operators, a \in Addresses :
        /\ tag_of(a) \notin ResidentTags(set_index_of(a))
        /\ operator' = op
        /\ address' = a
        /\ which_set' = set_index_of(a)
        /\ which_cache_line' = tag_of(a)
    /\ pc' \in NullDerefOutcomes
    /\ nevents' = nevents + 1
    /\ UNCHANGED <<s, E, b, cache, heap, freed, set_freed, msg, hit, miss,
                   eviction, dirty_byte, dirty_eviction, stamp, lastTag,
                   victims, evictedDirty,
                   stored, ref>>

NextOOM == BuildSet \/ BuildSetFail \/ Access \/ AccessAllocFail \/ Finish

SpecOOM == InitOOM /\ [][NextOOM]_vars

\* ================================================================ claims
\* a step that reads one event
AccessStep == nevents' = nevents + 1
\* ... whose operation is a load or a store
ValidStep == AccessStep /\ operator' \in {"L", "S"}

\* C1: an access that misses in a set holding E blocks removes exactly one
\* block of that set, the one whose most recent access is older than that
\* of every other resident block; no access removes any other block of
\* that set or any block of another set.
C1_EvictsExactlyLRU ==
    [][AccessStep =>
        LET i == which_set'
            fullMiss == /\ which_cache_line' \notin ResidentTags(i)
                        /\ Cardinality(Resident(i)) = E
        IN  /\ fullMiss =>
                \E v \in Resident(i) :
                    /\ victims' = {v}
                    /\ \A p \in Resident(i) \ {v} : stamp[v] < stamp[p]
            /\ ~fullMiss => victims' = {}
            /\ pc' = "run" =>
                \A j \in Sets :
                    Resident(j) \ Resident(j)' = IF j = i THEN victims' ELSE {}
    ]_vars

\* C1 witness: a block was evicted from a set of two ways although a block
\* allocated before it is still resident (a hit had refreshed that one).
C1_Witness ==
    /\ pc = "run"
    /\ E >= 2
    /\ victims # {}
    /\ \E v \in victims : \E p \in Resident(which_set) : p < v

\* C2: a load or store is a hit (hit + 1) iff its tag is resident in its
\* set before the event, a miss (miss + 1, eviction unchanged) iff the tag
\* is not resident and the set holds fewer than E blocks, and a miss
\* eviction (miss + 1, eviction + 1) iff the tag is not resident and the
\* set holds exactly E blocks.
C2_OutcomeByPriorState ==
    [][ValidStep =>
        LET i == which_set'
            resident == which_cache_line' \in ResidentTags(i)
            n == Cardinality(Resident(i))
            isHit  == /\ msg' = "hit"
                      /\ hit' = hit + 1 /\ miss' = miss /\ eviction' = eviction
            isMiss == /\ msg' = "miss"
                      /\ hit' = hit /\ miss' = miss + 1 /\ eviction' = eviction
            isEvict == /\ msg' = "miss eviction"
                       /\ hit' = hit /\ miss' = miss + 1
                       /\ eviction' = eviction + 1
        IN  /\ isHit <=> resident
            /\ isMiss <=> (~resident /\ n < E)
            /\ isEvict <=> (~resident /\ n = E)
    ]_vars

\* C2 witness: all three outcomes have occurred, the last being an eviction.
C2_Witness ==
    /\ pc = "run"
    /\ msg = "miss eviction"
    /\ hit > 0
    /\ miss > eviction
    /\ eviction > 0

\* the list l is ordered from most to least recently accessed
RecencyOrdered(l) ==
    \A x, y \in 1 .. Len(l) : x < y => stamp[l[x]] > stamp[l[y]]

C4_TagsUnique ==
    pc = "run" =>
        \A i \in Sets :
            \A p, q \in Resident(i) : heap[p].tag = heap[q].tag => p = q

\* C4 witness: a full set of two ways whose tags were both accessed again
\* after they were inserted.
C4_Witness ==
    /\ pc = "run"
    /\ E >= 2
    /\ hit >= 2
    /\ \E i \in Sets :
        /\ Len(SetList(i)) = E
        /\ \A p \in Resident(i) : stamp[p] > Len(heap)

\* C5 (as claimed): every set's tracked size is at most E.
C5_SizeAtMostE ==
    pc = "run" => \A i \in Sets : cache[i].size <= E

\* C6: over a trace of loads and stores the three counters never decrease,
\* every event adds exactly one to exactly one of hit and miss, so
\* hit + miss is the number of events processed, and eviction <= miss.
C6_CountersAddUp ==
    /\ [](pc # "aborted" => /\ hit + miss = nevents
                            /\ eviction <= miss)
    /\ [][/\ hit' >= hit
          /\ miss' >= miss
          /\ eviction' >= eviction
          /\ ValidStep => \/ hit' = hit + 1 /\ miss' = miss
                          \/ hit' = hit /\ miss' = miss + 1
       ]_vars

\* C6 witness: a finished run with hits, plain misses and evictions.
C6_Witness ==
    /\ pc = "done"
    /\ hit > 0
    /\ eviction > 0
    /\ miss > eviction
    /\ hit + miss = MaxEvents

\* C7: at the end of a trace of loads and stores the dirty-eviction total
\* is 2^b times the number of evictions whose victim had its dirty flag
\* set when it was unlinked.
C7_DirtyEvictionBytes ==
    pc = "done" => dirty_eviction = (2 ^ b) * evictedDirty

\* C7 witness: a finished run with blocks of two bytes that evicted a dirty
\* block and a clean one.
C7_Witness ==
    /\ pc = "done"
    /\ b > 0
    /\ evictedDirty > 0
    /\ eviction > evictedDirty

\* the blocks linked in some set
AllResident == UNION {Resident(i) : i \in Sets}

\* C8: at the end of a trace of loads and stores the dirty-byte total is
\* 2^b times the number of blocks resident at that moment, over all sets,
\* whose dirty flag is set; evicted blocks do not count.
C8_DirtyBytes ==
    [][(pc = "run" /\ pc' = "done") =>
        dirty_byte' =
            (2 ^ b) * Cardinality({p \in AllResident : heap[p].dirty # 0})
    ]_vars

\* C8 witness: a finished run with blocks of two bytes that reports dirty
\* bytes after a dirty block had been evicted.
C8_Witness ==
    /\ pc = "done"
    /\ b > 0
    /\ dirty_byte > 0
    /\ evictedDirty > 0

\* C9: a load or store whose set was last accessed with the same tag (no
\* event with another tag mapped to that set in between) is a hit and
\* counts no miss and no eviction.
C9_ReaccessHits ==
    [][(ValidStep /\ lastTag[which_set'] = which_cache_line') =>
        /\ msg' = "hit"
        /\ hit' = hit + 1
        /\ miss' = miss
        /\ eviction' = eviction
    ]_vars

\* C9 witness: the third access in a row to one block of a full set, with
\* an access to another set in between.
C9_Witness ==
    /\ pc = "run"
    /\ msg = "hit"
    /\ hit >= 2
    /\ heap[Head(SetList(which_set))].tag = which_cache_line
    /\ stamp[Head(SetList(which_set))] = nevents
    /\ \E j \in Sets : /\ j # which_set
                       /\ Resident(j) # {}
                       /\ \E p \in Resident(j) : stamp[p] = nevents - 1
    /\ nevents = MaxEvents

\* C10: the set selected for address A is (A div 2^b) mod 2^s, a number in
\* 0..2^s-1, and the tag is A div 2^(b+s); two addresses have the same set
\* and tag iff they differ only in their low b bits.
C10_AddressDecode ==
    /\ which_set = (address \div (2 ^ b)) % (2 ^ s)
    /\ which_cache_line = address \div (2 ^ (b + s))
    /\ which_set \in 0 .. (2 ^ s) - 1
    /\ \A a \in DecodeAddresses :
        (set_index_of(a) = which_set /\ tag_of(a) = which_cache_line)
            <=> (a \div (2 ^ b) = address \div (2 ^ b))

\* C10 witness: an address with nonzero offset, set index and tag under a
\* geometry with s > 0 and b > 0.
C10_Witness ==
    /\ s > 0
    /\ b > 0
    /\ address % (2 ^ b) # 0
    /\ which_set > 0
    /\ which_cache_line > 0

\* C11 (as claimed): when the run has ended, at end of trace or on the
\* invalid-operation path, every block allocated on a miss has been freed
\* exactly once.
C11_EveryBlockFreedOnce ==
    pc \in {"done", "aborted"} =>
        \A p \in 1 .. Len(heap) : freed[p] = 1

\* C12: an event whose operation is neither L nor S stops the run at that
\* event: hit, miss and eviction are not incremented for it, the cache is
\* torn down (every linked block and every set is freed), no later event
\* is processed and no summary is produced.
C12_InvalidOperationStops ==
    [][/\ (AccessStep /\ operator' = "X") =>
            /\ hit' = hit /\ miss' = miss /\ eviction' = eviction
            /\ pc' = "aborted"
            /\ \A j \in Sets :
                /\ set_freed'[j] = 1
                /\ \A p \in Range(ListOf(heap', cache'[j].head)) :
                        freed'[p] = 1
       /\ pc # "aborted"
       /\ pc' = "done" => pc = "run" /\ operator \in {"L", "S"}
    ]_vars

\* C12 witness: a run aborted by its last event after hits and misses,
\* with blocks linked at that moment.
C12_Witness ==
    /\ pc = "aborted"
    /\ operator = "X"
    /\ hit > 0
    /\ miss > 0
    /\ hit + miss = nevents - 1
    /\ \E j \in Sets : Len(SetList(j)) >= 2

\* C13 (as claimed): a failed allocation of a set or of a block aborts the
\* run in a defined way: the NULL block is never dereferenced, everything
\* allocated before is released, and no statistics are reported.
C13_AllocationFailureAborts ==
    /\ pc \notin NullDerefOutcomes
    /\ pc = "nomem" =>
        /\ \A j \in DOMAIN cache : set_freed[j] = 1
        /\ \A j \in DOMAIN set_freed \ DOMAIN cache : set_freed[j] = 0
        /\ hit = 0 /\ miss = 0 /\ eviction = 0
        /\ dirty_byte = 0 /\ dirty_eviction = 0

\* C14: a resident block's dirty flag is set iff a store has targeted the
\* block since it was brought in, the miss that brought it in included.
C14_DirtyIffStored ==
    pc = "run" =>
        \A i \in Sets :
            \A p \in Resident(i) : (heap[p].dirty # 0) <=> stored[p]

\* C14 witness: a load hit on a dirty block next to a clean block.
C14_Witness ==
    /\ pc = "run"
    /\ operator = "L"
    /\ msg = "hit"
    /\ heap[Head(SetList(which_set))].dirty = 1
    /\ \E p \in Resident(which_set) : heap[p].dirty = 0

\* C15 (as claimed): an event whose operation is neither L nor S causes no
\* promotion, no allocation, no eviction and no change of the
\* dirty-eviction tally.
C15_ValidatedBeforeLookup ==
    [][(AccessStep /\ operator' = "X") =>
        /\ Len(heap') = Len(heap)
        /\ victims' = {}
        /\ dirty_eviction' = dirty_eviction
        /\ \A j \in Sets : ListOf(heap', cache'[j].head) = SetList(j)
    ]_vars

\* C16: a hit keeps the blocks of the set, their tags, their number, the
\* tracked size and the dirty flag of every block but the matched one,
\* whose flag is set by a store and kept by a load; a load hit on the head
\* changes nothing in the cache; a lookup without a match changes nothing.
C16_HitFrame ==
    [][ValidStep =>
        LET i    == which_set'
            tag  == which_cache_line'
            post == ListOf(heap', cache'[i].head)
            m0   == [cache |-> cache, heap |-> heap, freed |-> freed,
                     set_freed |-> set_freed]
        IN  /\ msg' = "hit" =>
                /\ Range(post) = Resident(i)
                /\ Len(post) = Len(SetList(i))
                /\ cache'[i].size = cache[i].size
                /\ \A p \in Resident(i) :
                    /\ heap'[p].tag = heap[p].tag
                    /\ heap'[p].dirty =
                         IF heap[p].tag = tag /\ operator' = "S" THEN 1
                         ELSE heap[p].dirty
                /\ (operator' = "L" /\ heap[cache[i].head].tag = tag) =>
                        (cache' = cache /\ heap' = heap)
            /\ msg' # "hit" =>
                search(m0, i, cache[i].head, tag, operator', 0)
                    = [m |-> m0, found |-> 0]
    ]_vars

\* C16 witness: a store hit on the last of two blocks, the other one dirty,
\* in a set whose tail pointer an eviction had set.
C16_Witness ==
    /\ pc = "run"
    /\ E >= 2
    /\ operator = "S"
    /\ msg = "hit"
    /\ eviction > 0
    /\ Len(SetList(which_set)) = 2
    /\ stamp[SetList(which_set)[2]] = nevents - 1
    /\ \A p \in Resident(which_set) : heap[p].dirty = 1

\* C17: an event that maps to set i leaves every other set as it was: its
\* blocks, their order, their tags and dirty flags and its tracked size.
C17_OtherSetsUntouched ==
    [][ValidStep =>
        \A j \in Sets \ {which_set'} :
            /\ cache'[j] = cache[j]
            /\ ListOf(heap', cache'[j].head) = SetList(j)
            /\ \A p \in Resident(j) : heap'[p] = heap[p]
    ]_vars

\* C17 witness: an eviction in set 1 while set 0 holds a dirty block.
C17_Witness ==
    /\ pc = "run"
    /\ s >= 1
    /\ which_set = 1
    /\ msg = "miss eviction"
    /\ \E p \in Resident(0) : heap[p].dirty = 1

\* C18: the number of blocks linked in a set is at most E, and the guard
\* size < E is true iff fewer than E blocks are linked.
C18_GuardAgreesWithLength ==
    pc = "run" =>
        \A i \in Sets :
            /\ Len(SetList(i)) <= E
            /\ (cache[i].size < E) <=> (Len(SetList(i)) < E)

\* C18 witness: after evictions and hits a set links E blocks while its
\* tracked size is larger than E.
C18_Witness ==
    /\ pc = "run"
    /\ hit > 0
    /\ \E i \in Sets : /\ Len(SetList(i)) = E
                       /\ cache[i].size > E

\* C19: the blocks resident over all sets number miss - eviction; each
\* event changes the length of its own set's list by its miss increment
\* minus its eviction increment and no other list; eviction > 0 implies
\* that some set holds E blocks.
C19_ResidentIsMissMinusEviction ==
    /\ [](pc = "run" =>
            /\ Cardinality(AllResident) = miss - eviction
            /\ eviction > 0 => \E i \in Sets : Len(SetList(i)) = E)
    /\ [][ValidStep =>
            \A j \in Sets :
                Len(ListOf(heap', cache'[j].head)) - Len(SetList(j)) =
                    IF j = which_set'
                    THEN (miss' - miss) - (eviction' - eviction)
                    ELSE 0
       ]_vars

\* C19 witness: two blocks resident after a hit and an eviction.
C19_Witness ==
    /\ pc = "run"
    /\ eviction > 0
    /\ hit > 0
    /\ Cardinality(AllResident) >= 2

\* position of x in the sequence q, 0 if it does not occur
PosIn(q, x) ==
    IF \E k \in 1 .. Len(q) : q[k] = x
    THEN CHOOSE k \in 1 .. Len(q) : q[k] = x
    ELSE 0

Min(x, y) == IF x < y THEN x ELSE y

\* C20: the lists behave as the LRU reference model: an access to tag T in
\* set i is a hit iff T was accessed in set i before and fewer than E
\* distinct other tags were accessed in set i since T's last access;
\* otherwise it is a miss, an evicting one iff at least E distinct tags
\* were accessed in set i before; each list holds the min(E, n) most
\* recently accessed tags of its set in that order.
C20_RefinesLRU ==
    /\ [](pc = "run" =>
            \A i \in Sets :
                [k \in 1 .. Len(SetList(i)) |-> heap[SetList(i)[k]].tag]
                    = SubSeq(ref[i], 1, Min(E, Len(ref[i]))))
    /\ [][ValidStep =>
            LET i   == which_set'
                pos == PosIn(ref[i], which_cache_line')
                isHit == pos >= 1 /\ pos - 1 < E
            IN  /\ msg' = "hit" <=> isHit
                /\ msg' = "miss eviction" <=> (~isHit /\ Len(ref[i]) >= E)
                /\ msg' = "miss" <=> (~isHit /\ Len(ref[i]) < E)
       ]_vars

\* C20 witness: a tag that had been evicted misses again, with an eviction,
\* in a run that also had a hit.
C20_Witness ==
    /\ pc = "run"
    /\ msg = "miss eviction"
    /\ hit > 0
    /\ Len(ref[which_set]) > E
    /\ \E p \in 1 .. Len(heap) - 1 :
            /\ heap[p].tag = which_cache_line
            /\ p \notin AllResident
            /\ stamp[p] < nevents - 1

====
